---- MODULE Spec2Model ----
(***************************************************************************)
(* A model of express-openapi: the OpenAPIGenerator (src/src/generator.ts),*)
(* the key flattening of utils (src/src/errors.ts, lines 102-138) and the  *)
(* ExpressOpenAPI middleware (src/src/middleware.ts).                      *)
(*                                                                         *)
(* Strings are sequences of one-character strings, so that startsWith,     *)
(* replace, PathToRegexp.parse and the two regular-expression rewrites of  *)
(* getParams are computed character by character.                          *)
(***************************************************************************)
EXTENDS Integers, Sequences, FiniteSets, TLC

(***************************************************************************)
(* Characters                                                              *)
(***************************************************************************)
\* \w of the regular expressions of generator.ts:78-79 (the letters and the
\* digit the paths of this model use).
WordChars == {"a", "b", "c", "d", "e", "f", "h", "i", "n", "p", "r", "s",
              "t", "u", "v", "w", "x", "y", "1"}

\* Characters that may start / continue a parameter name in
\* PathToRegexp.parse (ID_START: $, _ and ID_Start; ID_CONTINUE: $ and
\* ID_Continue): a digit continues a name but does not start one, and "$"
\* is a character of a name that \w does not match.
IdStart == (WordChars \ {"1"}) \cup {"$"}
IdContinue == WordChars \cup {"$"}

\* Characters PathToRegexp.parse reserves: they make it throw a TypeError.
Reserved == {"(", ")", "[", "]", "+", "?", "!"}

(***************************************************************************)
(* String helpers (String.prototype.startsWith / replace)                  *)
(***************************************************************************)
startsWith(s, p) ==
    /\ Len(p) <= Len(s)
    /\ \A i \in 1..Len(p) : s[i] = p[i]

\* s.replace(p, '') for a string pattern p: the FIRST occurrence of p is
\* removed.
RECURSIVE FirstIndexOf(_, _, _)
FirstIndexOf(s, p, i) ==
    IF i + Len(p) - 1 > Len(s) THEN 0
    ELSE IF \A j \in 1..Len(p) : s[i + j - 1] = p[j] THEN i
    ELSE FirstIndexOf(s, p, i + 1)

replaceFirst(s, p) ==
    LET i == FirstIndexOf(s, p, 1)
    IN  IF i = 0 THEN s
        ELSE SubSeq(s, 1, i - 1) \o SubSeq(s, i + Len(p), Len(s))

\* The end (exclusive) of the longest run of characters of set cs starting
\* at index i of s.
RECURSIVE RunEnd(_, _, _)
RunEnd(s, i, cs) ==
    IF i <= Len(s) /\ s[i] \in cs THEN RunEnd(s, i + 1, cs) ELSE i

(***************************************************************************)
(* PathToRegexp.parse (path-to-regexp 8): text, :param, *wildcard and      *)
(* {group} tokens.  The result is [ok, tokens, next]; ok = FALSE is the    *)
(* TypeError the library throws on a missing parameter name, a reserved    *)
(* character or an unbalanced brace.                                       *)
(***************************************************************************)
ParseFail == [ok |-> FALSE, tokens |-> <<>>, next |-> 0]

RECURSIVE consume(_, _, _)
consume(s, i, inGroup) ==
    IF i > Len(s) THEN [ok |-> ~inGroup, tokens |-> <<>>, next |-> i]
    ELSE
      LET c == s[i] IN
      IF c = "}" THEN [ok |-> inGroup, tokens |-> <<>>, next |-> i + 1]
      ELSE IF c = "{" THEN
        LET g == consume(s, i + 1, TRUE) IN
        IF ~g.ok THEN ParseFail
        ELSE LET rest == consume(s, g.next, inGroup) IN
             IF ~rest.ok THEN ParseFail
             ELSE [ok |-> TRUE,
                   tokens |-> <<[type |-> "group", tokens |-> g.tokens]>>
                              \o rest.tokens,
                   next |-> rest.next]
      ELSE IF c \in {":", "*"} THEN
        LET e == IF i + 1 <= Len(s) /\ s[i + 1] \in IdStart
                 THEN RunEnd(s, i + 1, IdContinue) ELSE i + 1
        IN
        IF e = i + 1 THEN ParseFail
        ELSE LET rest == consume(s, e, inGroup) IN
             IF ~rest.ok THEN ParseFail
             ELSE [ok |-> TRUE,
                   tokens |-> <<[type |-> IF c = ":" THEN "param"
                                          ELSE "wildcard",
                                 name |-> SubSeq(s, i + 1, e - 1)]>>
                              \o rest.tokens,
                   next |-> rest.next]
      ELSE IF c \in Reserved THEN ParseFail
      ELSE
        LET e == RunEnd(s, i, {s[k] : k \in 1..Len(s)}
                               \ ({"{", "}", ":", "*"} \cup Reserved))
            rest == consume(s, e, inGroup)
        IN
        IF ~rest.ok THEN ParseFail
        ELSE [ok |-> TRUE,
              tokens |-> <<[type |-> "text", value |-> SubSeq(s, i, e - 1)]>>
                         \o rest.tokens,
              next |-> rest.next]

parse(s) == consume(s, 1, FALSE)

(***************************************************************************)
(* utils: processTokens / parseKeys / isHTTPMethod / isParameterObject     *)
(***************************************************************************)
RECURSIVE processTokens(_, _)
processTokens(tokens, isInsideGroup) ==
    IF tokens = <<>> THEN <<>>
    ELSE
      LET token == Head(tokens)
          here == IF token.type \in {"param", "wildcard"}
                  THEN <<[name |-> token.name, type |-> token.type,
                          required |-> ~isInsideGroup]>>
                  ELSE IF token.type = "group"
                  THEN processTokens(token.tokens, TRUE)
                  ELSE <<>>
      IN here \o processTokens(Tail(tokens), isInsideGroup)

parseKeys(data) == processTokens(data.tokens, FALSE)

(***************************************************************************)
(* The two rewrites of getParams: /\{:(\w+)\}/g -> ':$1', then             *)
(* /:(\w+)/g -> '{$1}'.                                                    *)
(***************************************************************************)
RECURSIVE unwrapGroupMarkers(_, _)
unwrapGroupMarkers(s, i) ==
    IF i > Len(s) THEN <<>>
    ELSE
      LET e == RunEnd(s, i + 2, WordChars) IN
      IF /\ s[i] = "{"
         /\ i + 1 <= Len(s) /\ s[i + 1] = ":"
         /\ e > i + 2
         /\ e <= Len(s) /\ s[e] = "}"
      THEN <<":">> \o SubSeq(s, i + 2, e - 1) \o unwrapGroupMarkers(s, e + 1)
      ELSE <<s[i]>> \o unwrapGroupMarkers(s, i + 1)

RECURSIVE markersToBraces(_, _)
markersToBraces(s, i) ==
    IF i > Len(s) THEN <<>>
    ELSE
      LET e == RunEnd(s, i + 1, WordChars) IN
      IF s[i] = ":" /\ e > i + 1
      THEN <<"{">> \o SubSeq(s, i + 1, e - 1) \o <<"}">>
           \o markersToBraces(s, e)
      ELSE <<s[i]>> \o markersToBraces(s, i + 1)

rewritePath(path) == markersToBraces(unwrapGroupMarkers(path, 1), 1)

(***************************************************************************)
(* Values                                                                  *)
(***************************************************************************)
\* utils.isHTTPMethod (errors.ts:116-118).
HTTPMethods == {"get", "post", "put", "patch", "delete", "options", "head",
                "trace"}

isHTTPMethod(method) == method \in HTTPMethods

\* String.prototype.toLowerCase on the method names of this model.
toLowerCase(m) ==
    CASE m = "GET" -> "get"
      [] m = "POST" -> "post"
      [] OTHER -> m

\* utils.isParameterObject: an object with a 'name' property.
isParameterObject(p) == "name" \in DOMAIN p

\* Object.assign(a, b): the properties of b over those of a.
assign(a, b) == b @@ a

\* layer.method of a layer attached without a verb (router.use, route.all)
\* is undefined.
Undefined == "undefined"

\* layer.route of a layer that is no route.
NoRoute == [none |-> TRUE]

\* Handler identities.  "dispatch" is the bound dispatch function of a
\* route layer; the routers are the handles that carry a stack.
RouterIds == {"r1", "r2"}
Handlers == {"h1", "h2"}

isRouter(handle) == handle \in RouterIds

(***************************************************************************)
(* Paths of the model                                                      *)
(***************************************************************************)
Slash == <<"/">>
PT == <<"/", "t">>
PAx == <<"/", "a", "/", ":", "x">>
PBx == <<"/", "b", "/", ":", "x">>
PBy == <<"/", "b", "/", ":", "y">>
PBgx == <<"/", "b", "{", "/", ":", "x", "}">>
PCx == <<"/", "c", "/", ":", "x">>
PFw == <<"/", "f", "/", "*", "w">>
PApiV1 == <<"/", "a", "p", "i", "/", "v", "1">>
PApiV1T == PApiV1 \o PT
PApi == <<"/", "a", "p", "i">>
PUsersId == <<"/", "u", "s", "e", "r", "s", "/", ":", "i", "d">>
PPx == <<"/", "p", "/", ":", "x">>
PDxy == <<"/", "d", "/", ":", "x", "$", "y">>
PY == <<"/", ":", "y">>
PR == <<"/", "r">>
PS == <<"/", "s">>
UrlHost == <<"h", "t", "t", "p", ":", "/", "/", "h">>
UrlHostApi == UrlHost \o PApi

(***************************************************************************)
(* Operation metadata (OpenAPIV3.OperationObject) a caller registers       *)
(***************************************************************************)
\* A declared parameter is an object; its properties are the DOMAIN.
DeclXDesc == [name |-> <<"x">>, in |-> "path", description |-> "the x",
              schema |-> "integer"]
DeclYDesc == [name |-> <<"y">>, in |-> "path", description |-> "the y"]
DeclXReq == [name |-> <<"x">>, in |-> "path", required |-> TRUE,
             schema |-> "string"]
DeclQuery == [name |-> <<"x">>, in |-> "query", schema |-> "string"]
DeclRef == [ref |-> "#/components/parameters/p"]

\* {responses: {"200": {description: "ok"}}}
SchemaOk == [responses |-> "ok"]
SchemaXY == [summary |-> "Show", description |-> "shows",
             responses |-> "ok",
             parameters |-> <<DeclRef, DeclXDesc, DeclYDesc>>]
SchemaXReq == [summary |-> "Read", responses |-> "ok",
               parameters |-> <<DeclXReq>>]
SchemaQuery == [summary |-> "Find", responses |-> "ok",
                parameters |-> <<DeclQuery>>]

\* The metadata a caller registers for a handler.
Schemas(handler) ==
    IF handler = "h1"
    THEN {SchemaOk, SchemaXY, SchemaXReq, SchemaQuery}
    ELSE {SchemaOk}

\* The mount paths a caller registers for a router.
MountPaths(router) ==
    IF router = "r1" THEN {PR, PApiV1, <<>>} ELSE {PS}

(***************************************************************************)
(* Layers (the host framework's Layer and Route objects, types.ts)         *)
(***************************************************************************)
\* router.METHOD(path, h...) pushes a layer whose handle is the route's
\* dispatch and whose route carries one layer per handler, each with the
\* method.
HandlerLayer(id, h, m) ==
    [id |-> id, name |-> h, handle |-> h, method |-> m, route |-> NoRoute]

RouteLayer(id, path, hs, m) ==
    [id |-> id, name |-> "handle", handle |-> "dispatch",
     method |-> Undefined,
     route |-> [path |-> path,
                stack |-> [j \in DOMAIN hs |->
                             HandlerLayer(id \o <<j>>, hs[j], m)]]]

\* router.use(path, subRouter): the Router function is named "router".
RouterLayer(id, r) ==
    [id |-> id, name |-> "router", handle |-> r, method |-> Undefined,
     route |-> NoRoute]

\* A route path is a string or an array of strings: isArray is
\* Array.isArray(route.path), strings lists the string(s).
Str(p) == [isArray |-> FALSE, strings |-> <<p>>]
Arr(ps) == [isArray |-> TRUE, strings |-> ps]

\* The layers a root router is built from; id is the layer's identity.
TopLayers(id) ==
    << RouteLayer(id, Str(PT), <<"h1">>, "get"),
       RouteLayer(id, Str(PT), <<"mw", "h1">>, "post"),
       RouteLayer(id, Str(PT), <<"h1">>, "connect"),
       RouteLayer(id, Str(PAx), <<"h1">>, "get"),
       RouteLayer(id, Str(PBy), <<"h1">>, "get"),
       RouteLayer(id, Str(PBgx), <<"mw", "h1">>, "get"),
       RouteLayer(id, Str(PFw), <<"h1">>, "get"),
       RouteLayer(id, Str(PApiV1T), <<"h2">>, "get"),
       RouteLayer(id, Str(PApi \o PT), <<"h2">>, "get"),
       RouteLayer(id, Str(PUsersId), <<"h2">>, "get"),
       RouteLayer(id, Arr(<<PAx, PBx>>), <<"mw", "h1">>, "get"),
       RouteLayer(id, Arr(<<PAx, PBy, PCx>>), <<"mw", "h1", "h2">>, "get"),
       RouterLayer(id, "r1"),
       HandlerLayer(id, "h1", Undefined),
       RouteLayer(id, Str(PDxy), <<"h1">>, "get") >>

\* The stacks of the sub-routers: r2 is mounted inside r1.
SubStacks ==
    [r \in RouterIds |->
       IF r = "r1"
       THEN <<RouteLayer(<<"r1", 1>>, Str(PPx), <<"h2">>, "get"),
              RouterLayer(<<"r1", 2>>, "r2")>>
       ELSE <<RouteLayer(<<"r2", 1>>, Str(PY), <<"h1">>, "delete")>>]

\* The number of layers of the root router's stack.
MaxRootLayers == 2

\* The layers (of TopLayers) a root stack of several layers starts with,
\* and those that follow its first layer.
FirstLayers == {1, 2, 3, 4, 5, 6, 7, 11, 12, 13, 14, 15}
LaterLayers == {2, 5, 6, 7, 13}

RootStacks ==
    UNION { { [i \in 1..n |-> TopLayers(<<"root", i>>)[c[i]]] :
              c \in { d \in [1..n -> DOMAIN TopLayers(<<>>)] :
                        /\ n > 1 => d[1] \in FirstLayers
                        /\ \A i \in 2..n : d[i] \in LaterLayers } } :
            n \in 1..MaxRootLayers }

\* The description documents a generator is constructed with: the first
\* server URL (<<>> in servers: none declared) and the paths it brings.
PresetOp == [summary |-> "Preset", responses |-> "ok"]

BaseDocs ==
    { [servers |-> <<>>, paths |-> <<>>],
      [servers |-> <<PApiV1>>, paths |-> <<>>],
      [servers |-> <<UrlHost>>, paths |-> <<>>],
      [servers |-> <<UrlHostApi>>, paths |-> <<>>],
      [servers |-> <<>>, paths |-> (<<"t">> :> ("put" :> PresetOp))] }

(***************************************************************************)
(* State                                                                   *)
(***************************************************************************)
VARIABLES
    basePath,        \* OpenAPIGenerator.basePath
    doc,             \* OpenAPIGenerator.doc (its paths)
    schemaMap,       \* OpenAPIGenerator.schemaMap: handler -> operation
    routerMap,       \* OpenAPIGenerator.routerMap: router -> mount path
    app,             \* the router tree: the stack of the root router
    isFirstRequest,  \* the latch of the ExpressOpenAPI middleware
    pc,              \* "idle", or who runs initializeDoc: "direct", "request"
    work,            \* the pending recurseStack calls, next first
    err,             \* the error the last initializeDoc threw, if any
    declared,        \* history: the metadata addSchema was called with
    calls,           \* history: the getParams calls of the traversal
    returned,        \* history: documents of consecutive clean traversals
    inits,           \* history: initializeDoc calls made so far
    requests         \* history: the requests, the initializeDoc calls they
                     \* made and how many of these calls returned

vars == <<basePath, doc, schemaMap, routerMap, app, isFirstRequest, pc, work,
          err, declared, calls, returned, inits, requests>>

NoError == [kind |-> "none", path |-> <<>>, name |-> "", layer |-> <<>>]

\* The number of initializeDoc calls and of middleware requests explored.
MaxInits == 2
MaxRequests == 3

(***************************************************************************)
(* OpenAPIGenerator.getParams(path, layer) on document paths `paths` and   *)
(* registry `sm`: the error thrown, or the two maps after the call.        *)
(***************************************************************************)
\* No strip at all.
stripBasePathNever(path) == path

stripBasePath(path) ==
    IF basePath # <<>> /\ startsWith(path, basePath)
    THEN replaceFirst(path, basePath)
    ELSE path

\* A default that leaves the value schema out.
defaultParamNoSchema(k) ==
    [name |-> k.name, in |-> "path", required |-> k.required]

defaultParam(k) ==
    [name |-> k.name, in |-> "path", required |-> k.required,
     schema |-> "string"]

\* A lookup by name alone, whatever the declared location.
findParamAnyLocation(schema, k) ==
    IF "parameters" \notin DOMAIN schema THEN <<>>
    ELSE
      LET ps == schema.parameters
          hits == { i \in DOMAIN ps :
                      isParameterObject(ps[i]) /\ ps[i].name = k.name }
      IN IF hits = {} THEN <<>>
         ELSE ps[CHOOSE i \in hits : \A j \in hits : i <= j]

\* schema.parameters && schema.parameters.find(...): the first declared
\* parameter object named like the key and located in the path, or {}.
findParam(schema, k) ==
    IF "parameters" \notin DOMAIN schema THEN <<>>
    ELSE
      LET ps == schema.parameters
          hits == { i \in DOMAIN ps :
                      /\ isParameterObject(ps[i])
                      /\ ps[i].name = k.name
                      /\ "in" \in DOMAIN ps[i]
                      /\ ps[i]["in"] = "path" }
      IN IF hits = {} THEN <<>>
         ELSE ps[CHOOSE i \in hits : \A j \in hits : i <= j]

buildParam(schema, k) == assign(defaultParam(k), findParam(schema, k))

\* A comparison with a misspelt token type: no key ever matches.
hasWildcardMisspelt(keys) == \E i \in DOMAIN keys : keys[i].type = "wild"

hasWildcard(keys) == \E i \in DOMAIN keys : keys[i].type = "wildcard"

Skipped(paths, sm) ==
    [kind |-> "none", wrote |-> FALSE, paths |-> paths, sm |-> sm,
     key |-> <<>>, method |-> "", operation |-> <<>>]

\* A throw that empties the document on its way out.
ThrownAfterRollback(kind, paths, sm, path) ==
    [kind |-> kind, wrote |-> FALSE, paths |-> <<>>, sm |-> sm,
     key |-> path, method |-> "", operation |-> <<>>]

Thrown(kind, paths, sm, path) ==
    [kind |-> kind, wrote |-> FALSE, paths |-> paths, sm |-> sm,
     key |-> path, method |-> "", operation |-> <<>>]

\* A path entry built anew for every operation.
mergeOperationFreshPathObj(paths, key, method, operation) ==
    (key :> (method :> operation)) @@ paths

\* pathObj = doc.paths[path] ?? {}; pathObj[method] = operation;
\* doc.paths[path] = pathObj
mergeOperation(paths, key, method, operation) ==
    LET pathObj == IF key \in DOMAIN paths THEN paths[key] ELSE <<>>
    IN (key :> ((method :> operation) @@ pathObj)) @@ paths

getParams(path0, layer, paths, sm) ==
    LET path == stripBasePath(path0) IN
    IF layer.handle \notin DOMAIN sm THEN Skipped(paths, sm)
    ELSE IF layer.method = Undefined THEN Thrown("TypeError", paths, sm, path)
    ELSE
      LET schema == sm[layer.handle]
          method == toLowerCase(layer.method)
      IN
      IF ~isHTTPMethod(method) THEN Skipped(paths, sm)
      ELSE
        LET tokenData == parse(path) IN
        IF ~tokenData.ok THEN Thrown("TypeError", paths, sm, path)
        ELSE
          LET keys == parseKeys(tokenData) IN
          IF hasWildcard(keys)
          THEN Thrown("WildcardPathError", paths, sm, path)
          ELSE
            LET params == [i \in DOMAIN keys |-> buildParam(schema, keys[i])]
                operation == assign(schema, [parameters |-> params])
                key == rewritePath(path)
            IN [kind |-> "none", wrote |-> TRUE,
                paths |-> mergeOperation(paths, key, method, operation),
                sm |-> (layer.handle :> operation) @@ sm,
                key |-> key, method |-> method, operation |-> operation]

(***************************************************************************)
(* OpenAPIGenerator.recurseStack(path, layer): the calls it makes next, in *)
(* order, after its getParams call left the registry `sm`.                 *)
(***************************************************************************)
Call(path, layer) == [path |-> path, layer |-> layer]

isRouterLayer(layer) == layer.name = "router" /\ isRouter(layer.handle)

\* A check for the empty string alone: an absent entry passes.
mountMissingOnlyEmpty(layer) ==
    /\ layer.handle \in DOMAIN routerMap
    /\ routerMap[layer.handle] = <<>>

\* !routerPath: no entry, or the empty string.
mountMissing(layer) ==
    \/ layer.handle \notin DOMAIN routerMap
    \/ routerMap[layer.handle] = <<>>

\* path + routerPath: an undefined routerPath concatenates as "undefined".
UndefinedText == <<"u", "n", "d", "e", "f", "i", "n", "e", "d">>

routerPathOf(layer) ==
    IF layer.handle \in DOMAIN routerMap THEN routerMap[layer.handle]
    ELSE UndefinedText

routerCalls(path, layer) ==
    IF isRouterLayer(layer)
    THEN LET stack == SubStacks[layer.handle]
         IN [i \in DOMAIN stack |->
               Call(path \o routerPathOf(layer), stack[i])]
    ELSE <<>>

\* route.stack.find(l => this.schemaMap.get(l.handle)): its index, or 0.
schemaLayerIndex(stack, sm) ==
    LET hits == { i \in DOMAIN stack : stack[i].handle \in DOMAIN sm }
    IN IF hits = {} THEN 0 ELSE CHOOSE i \in hits : \A j \in hits : i <= j

\* The whole stack walked once per path of the array.
fanOutCallsWholeStack(path, route, sm) ==
    IF schemaLayerIndex(route.stack, sm) = 0 THEN <<>>
    ELSE [i \in 1..(Len(route.path.strings) * Len(route.stack)) |->
            Call(path \o route.path.strings[((i - 1) \div Len(route.stack))
                                            + 1],
                 route.stack[((i - 1) % Len(route.stack)) + 1])]

fanOutCalls(path, route, sm) ==
    LET k == schemaLayerIndex(route.stack, sm) IN
    IF k = 0 THEN <<>>
    ELSE [i \in DOMAIN route.path.strings |->
            Call(path \o route.path.strings[i], route.stack[k])]

routeCalls(path, layer, sm) ==
    LET route == layer.route IN
    IF route = NoRoute THEN <<>>
    ELSE IF route.path.isArray THEN fanOutCalls(path, route, sm)
    ELSE [i \in DOMAIN route.stack |->
            Call(path \o route.path.strings[1], route.stack[i])]

(***************************************************************************)
(* Actions                                                                 *)
(***************************************************************************)
\* The routers and the handlers of the router tree.
RECURSIVE stackHandles(_)
stackHandles(stack) ==
    UNION { {stack[i].handle}
            \cup (IF stack[i].route = NoRoute THEN {}
                  ELSE stackHandles(stack[i].route.stack))
            \cup (IF isRouter(stack[i].handle)
                  THEN stackHandles(SubStacks[stack[i].handle])
                  ELSE {}) : i \in DOMAIN stack }

MainBaseDocs == { d \in BaseDocs : d.paths = <<>> /\
                                   (d.servers = <<>> \/ d.servers[1] = PApiV1) }

\* new OpenAPIGenerator(baseDoc), for a router tree.
Construct(baseDoc, root) ==
        /\ basePath = IF baseDoc.servers = <<>> THEN Slash
                      ELSE baseDoc.servers[1]
        /\ doc = [paths |-> baseDoc.paths]
        /\ schemaMap = <<>>
        /\ routerMap = <<>>
        /\ app = [root |-> root]
        /\ isFirstRequest = TRUE
        /\ pc = "idle"
        /\ work = <<>>
        /\ err = NoError
        /\ declared = <<>>
        /\ calls = <<>>
        /\ returned = <<>>
        /\ inits = 0
        /\ requests = [n |-> 0, inits |-> 0, returns |-> 0]

Init ==
    \E baseDoc \in BaseDocs, root \in RootStacks :
        /\ Len(root) = 1 \/ baseDoc \in MainBaseDocs
        /\ Construct(baseDoc, root)

\* ExpressOpenAPI({baseDoc}), mounted on an app with one route or router.
InitMw ==
    \E baseDoc \in BaseDocs, root \in RootStacks :
        /\ Len(root) = 1
        /\ Construct(baseDoc, root)

\* generator.addSchema(handler, schema) / openApi.path(schema)
AddSchema ==
    /\ pc = "idle"
    /\ inits = 0
    /\ \E handler \in Handlers \cap stackHandles(app.root) :
         \E schema \in Schemas(handler) :
            /\ schemaMap' = (handler :> schema) @@ schemaMap
            /\ declared' = (handler :> schema) @@ declared
    /\ returned' = <<>>
    /\ UNCHANGED <<basePath, doc, routerMap, app, isFirstRequest, pc, work,
                   err, calls, inits, requests>>

\* generator.registerRouter(router, path) / openApi.asRouterArgs(path, router)
RegisterRouter ==
    /\ pc = "idle"
    /\ inits = 0
    /\ \E router \in RouterIds \cap stackHandles(app.root) :
         \E path \in MountPaths(router) :
            routerMap' = (router :> path) @@ routerMap
    /\ returned' = <<>>
    /\ UNCHANGED <<basePath, doc, schemaMap, app, isFirstRequest, pc, work,
                   err, declared, calls, inits, requests>>

\* The loop of initializeDoc: one recurseStack('', layer) per root layer.
rootCalls == [i \in DOMAIN app.root |-> Call(<<>>, app.root[i])]

\* generator.initializeDoc(router), called by the caller.
InitializeDoc ==
    /\ pc = "idle"
    /\ inits < MaxInits
    /\ pc' = "direct"
    /\ work' = rootCalls
    /\ err' = NoError
    /\ calls' = <<>>
    /\ inits' = inits + 1
    /\ UNCHANGED <<basePath, doc, schemaMap, routerMap, app, isFirstRequest,
                   declared, returned, requests>>

\* The middleware called with a request: the first request (the latch is
\* still set) calls initializeDoc, a later one goes on to the router.
Request ==
    /\ pc = "idle"
    /\ requests.n < MaxRequests
    /\ IF isFirstRequest
       THEN /\ inits < MaxInits
            /\ pc' = "request"
            /\ work' = rootCalls
            /\ err' = NoError
            /\ calls' = <<>>
            /\ inits' = inits + 1
            /\ requests' = [requests EXCEPT !.n = @ + 1, !.inits = @ + 1]
       ELSE /\ requests' = [requests EXCEPT !.n = @ + 1]
            /\ UNCHANGED <<pc, work, err, calls, inits>>
    /\ UNCHANGED <<basePath, doc, schemaMap, routerMap, app, isFirstRequest,
                   declared, returned>>

\* One call recurseStack(path, layer): getParams, then the router check,
\* then the calls on the layers beneath.  An error ends initializeDoc: it
\* propagates to the caller, and what was written stays written.
RecurseStack ==
    /\ pc # "idle"
    /\ work # <<>>
    /\ LET call == Head(work)
           gp == getParams(call.path, call.layer, doc.paths, schemaMap)
           entry == [layer |-> call.layer.id, handle |-> call.layer.handle,
                     path |-> call.path, wrote |-> gp.wrote,
                     key |-> gp.key, method |-> gp.method,
                     operation |-> gp.operation]
       IN
       /\ calls' = Append(calls, entry)
       /\ doc' = [doc EXCEPT !.paths = gp.paths]
       /\ schemaMap' = gp.sm
       /\ IF gp.kind # "none"
          THEN /\ err' = [kind |-> gp.kind, path |-> gp.key,
                          name |-> call.layer.name, layer |-> call.layer.id]
               /\ work' = <<>>
               /\ pc' = "idle"
               /\ returned' = <<>>
          ELSE IF isRouterLayer(call.layer) /\ mountMissing(call.layer)
          THEN /\ err' = [kind |-> "RouterRegistrationError",
                          path |-> call.path, name |-> call.layer.name,
                          layer |-> call.layer.id]
               /\ work' = <<>>
               /\ pc' = "idle"
               /\ returned' = <<>>
          ELSE /\ work' = routerCalls(call.path, call.layer)
                          \o routeCalls(call.path, call.layer, gp.sm)
                          \o Tail(work)
               /\ UNCHANGED <<err, pc, returned>>
    /\ UNCHANGED <<basePath, routerMap, app, isFirstRequest, declared, inits,
                   requests>>

\* A latch that is never cleared.
latchNeverCleared(caller) == isFirstRequest

\* middleware.ts:13-16: isFirstRequest = false follows the call of
\* initializeDoc, so it is reached only when the call returns.
latchAfter(caller) == IF caller = "request" THEN FALSE ELSE isFirstRequest

\* initializeDoc returns the document; the middleware then clears its latch.
Return ==
    /\ pc # "idle"
    /\ work = <<>>
    /\ pc' = "idle"
    /\ isFirstRequest' = latchAfter(pc)
    /\ requests' = IF pc = "request"
                   THEN [requests EXCEPT !.returns = @ + 1]
                   ELSE requests
    /\ returned' = Append(returned, doc)
    /\ UNCHANGED <<basePath, doc, schemaMap, routerMap, app, work, err,
                   declared, calls, inits>>

\* The generator used directly.
Next ==
    \/ AddSchema
    \/ RegisterRouter
    \/ InitializeDoc
    \/ RecurseStack
    \/ Return

Spec == Init /\ [][Next]_vars

\* The generator behind the ExpressOpenAPI middleware.
NextMw ==
    \/ AddSchema
    \/ RegisterRouter
    \/ Request
    \/ RecurseStack
    \/ Return

SpecMw == InitMw /\ [][NextMw]_vars

(***************************************************************************)
(* Properties                                                              *)
(***************************************************************************)
\* The recurseStack call a RecurseStack step makes, and what it recorded.
stepping == pc # "idle" /\ work # <<>>
thisCall == Head(work)
thisEntry == calls'[Len(calls')]

\* The layers of a route's stack: the handlers a route is bound to.
isHandlerLayer(layer) == layer.route = NoRoute /\ ~isRouter(layer.handle)

\* A '*' followed by a name: a wildcard token of the path.
containsWildcardToken(path) ==
    \E i \in 1..(Len(path) - 1) : path[i] = "*" /\ path[i + 1] \in IdStart

\* The path with its first n characters removed.
dropFirst(path, n) == SubSeq(path, n + 1, Len(path))

\* The calls a RecurseStack step adds to the pending ones.
addedCalls == SubSeq(work', 1, Len(work') - Len(work) + 1)

\* The ids of the layers beneath a router: its stack, the stacks of the
\* routes in it, and the layers beneath the routers mounted in it.
RECURSIVE layerIds(_)
layerIds(stack) ==
    UNION { {stack[i].id}
            \cup (IF stack[i].route = NoRoute THEN {}
                  ELSE layerIds(stack[i].route.stack))
            \cup (IF isRouter(stack[i].handle)
                  THEN layerIds(SubStacks[stack[i].handle])
                  ELSE {}) : i \in DOMAIN stack }

beneath(router) == layerIds(SubStacks[router])

\* C1: calling initializeDoc twice in a row on the same unchanged root (no
\* addSchema or registerRouter call in between) leaves the document equal
\* to the document the first call returned.
C1_TraverseIdempotent ==
    \A i \in DOMAIN returned : \A j \in DOMAIN returned :
        returned[i] = returned[j]

\* C2 as stated: every route reached with a path that contains a wildcard
\* token makes initializeDoc fail with WildcardPathError and writes nothing.
C2_EveryWildcardRouteFails ==
    [][ (stepping /\ isHandlerLayer(thisCall.layer)
           /\ containsWildcardToken(thisCall.path))
        => (/\ err'.kind = "WildcardPathError"
            /\ pc' = "idle"
            /\ doc' = doc
            /\ schemaMap' = schemaMap) ]_vars

\* C2, amended: a route reached with a path that contains a wildcard token,
\* whose handler has registered metadata and whose layer carries one of the
\* HTTP methods, makes initializeDoc fail with WildcardPathError; the
\* document and the registry are as just before the route was processed.
C2_DocumentedWildcardRouteFails ==
    [][ (stepping /\ isHandlerLayer(thisCall.layer)
           /\ containsWildcardToken(thisCall.path)
           /\ thisCall.layer.handle \in DOMAIN schemaMap
           /\ thisCall.layer.method \in HTTPMethods)
        => (/\ err'.kind = "WildcardPathError"
            /\ pc' = "idle"
            /\ work' = <<>>
            /\ doc' = doc
            /\ schemaMap' = schemaMap) ]_vars

\* A wildcard route failed after an earlier route was recorded.
C2_Witness ==
    /\ err.kind = "WildcardPathError"
    /\ pc = "idle"
    /\ containsWildcardToken(err.path)
    /\ DOMAIN doc.paths # {}

\* C3: a sub-router layer reached by the traversal for which registerRouter
\* was never called makes initializeDoc fail with RouterRegistrationError,
\* and then no layer beneath that sub-router has been processed: none has
\* recorded an operation or written the registry.
C3_UnregisteredRouterFails ==
    \A i \in DOMAIN calls :
        (isRouter(calls[i].handle) /\ calls[i].handle \notin DOMAIN routerMap)
        => /\ i = Len(calls)
           /\ err.kind = "RouterRegistrationError"
           /\ err.layer = calls[i].layer
           /\ pc = "idle"
           /\ work = <<>>
           /\ \A j \in DOMAIN calls :
                calls[j].layer \notin beneath(calls[i].handle)

\* An unregistered sub-router was reached after a route was recorded.
C3_Witness ==
    /\ err.kind = "RouterRegistrationError"
    /\ "r1" \notin DOMAIN routerMap
    /\ Len(calls) > 1
    /\ \E j \in DOMAIN calls : calls[j].wrote
    /\ "h2" \in DOMAIN schemaMap

\* C4: with first server URL "/api/v1", an operation whose accumulated path
\* starts with "/api/v1" is recorded under the path with that leading prefix
\* removed once (a route at /api/v1/t is recorded at /t, and no key
\* /api/v1/t exists); a path that does not start with it is recorded
\* unstripped; the prefix handed down the recursion is never shortened.
C4_BasePathStrippedOnce ==
    [][ (stepping /\ basePath = PApiV1)
        => /\ thisEntry.wrote =>
                LET full == thisCall.path
                    rest == IF startsWith(full, PApiV1)
                            THEN dropFirst(full, Len(PApiV1))
                            ELSE full
                IN /\ thisEntry.key = rewritePath(rest)
                   /\ thisEntry.key \in DOMAIN doc'.paths
                   /\ thisEntry.method \in DOMAIN doc'.paths[thisEntry.key]
                   /\ full = PApiV1T =>
                        /\ thisEntry.key = PT
                        /\ PApiV1T \notin DOMAIN doc'.paths
           /\ \A i \in DOMAIN addedCalls :
                /\ startsWith(addedCalls[i].path, thisCall.path)
                /\ thisCall.layer.route # NoRoute =>
                     addedCalls[i].path \in
                        { thisCall.path \o thisCall.layer.route.path.strings[j] :
                            j \in DOMAIN thisCall.layer.route.path.strings }
                /\ isRouter(thisCall.layer.handle) =>
                     addedCalls[i].path =
                        thisCall.path \o routerMap[thisCall.layer.handle] ]_vars

\* The route at /api/v1/t was recorded at /t, and a route beneath a router
\* mounted at /api/v1 was recorded without the mount path.
C4_Witness ==
    /\ basePath = PApiV1
    /\ \E i \in DOMAIN calls :
         /\ calls[i].wrote
         /\ calls[i].path = PApiV1T
         /\ calls[i].key = PT
         /\ PT \in DOMAIN doc.paths

\* The parameter of C5.
IdParam == [name |-> <<"i", "d">>, in |-> "path", required |-> TRUE,
            schema |-> "string"]

\* GET /users/:id was recorded for a handler registered with
\* {responses: {"200": {description: "ok"}}}, no server being declared.
usersRouteRecorded ==
    /\ basePath = Slash
    /\ \E i \in DOMAIN calls :
         /\ calls[i].wrote
         /\ calls[i].path = PUsersId
         /\ calls[i].method = "get"
         /\ declared[calls[i].handle] = SchemaOk

hasIdParamAt(key) ==
    /\ key \in DOMAIN doc.paths
    /\ "get" \in DOMAIN doc.paths[key]
    /\ Len(doc.paths[key].get.parameters) >= 1
    /\ doc.paths[key].get.parameters[1] = IdParam

\* C5 as stated: the route is recorded under "/users/{id}".
C5_UsersKeyKeepsSlash ==
    usersRouteRecorded => hasIdParamAt(<<"/">> \o rewritePath(Tail(PUsersId)))

\* C5, amended: with no server declared the base path "/" is stripped like
\* any other, so the route is recorded under "users/{id}" (no leading
\* slash), and that entry's get.parameters[0] is
\* {name: "id", in: "path", required: true, schema: {type: "string"}}.
C5_UsersKeyLosesSlash ==
    usersRouteRecorded =>
        /\ hasIdParamAt(<<"u", "s", "e", "r", "s", "/", "{", "i", "d", "}">>)
        /\ (<<"/">> \o rewritePath(Tail(PUsersId))) \notin DOMAIN doc.paths

C5_Witness ==
    /\ usersRouteRecorded
    /\ pc = "idle"
    /\ err.kind = "none"

\* C6: with a first server URL scheme://host/P the prefix stripped is the
\* path component P ("http://h/api": an operation at /api/t is recorded at
\* /t); with a URL without path component ("http://h") the keys are the
\* accumulated paths.
C6_UrlPathComponentStripped ==
    \A i \in DOMAIN calls :
        calls[i].wrote =>
            /\ (basePath = UrlHostApi /\ startsWith(calls[i].path, PApi)) =>
                   calls[i].key =
                       rewritePath(dropFirst(calls[i].path, Len(PApi)))
            /\ basePath = UrlHost => calls[i].key = rewritePath(calls[i].path)

\* The entries of `calls` made on the layers of a route's stack, in order.
RECURSIVE entriesOn(_, _)
entriesOn(ids, i) ==
    IF i > Len(calls) THEN <<>>
    ELSE (IF calls[i].layer \in ids THEN <<calls[i]>> ELSE <<>>)
         \o entriesOn(ids, i + 1)

\* The parameters of name n among the parameters ps.
paramsNamed(ps, n) == { ps[i] : i \in { j \in DOMAIN ps : ps[j].name = n } }

paramNames(ps) == { ps[i].name : i \in DOMAIN ps }

sameText(a, b, field) ==
    /\ (field \in DOMAIN a) = (field \in DOMAIN b)
    /\ field \in DOMAIN a => a[field] = b[field]

\* The parameter names every one of the entries es carries.
sharedNames(es) ==
    { name \in UNION { paramNames(es[i].operation.parameters) :
                         i \in DOMAIN es } :
        \A i \in DOMAIN es : name \in paramNames(es[i].operation.parameters) }

\* C7: for a route whose path is an array of N strings and whose stack has a
\* handler with registered metadata (on a layer with an HTTP method), a
\* traversal that returns has called getParams once per array element, on
\* that handler's layer only (the other layers of the stack are not walked
\* per path), and each call has recorded an entry under the element's
\* translated key and the layer's method; all N entries carry the
\* registered summary and description, and equal parameters for each
\* parameter name the N paths share.
C7_FanOut ==
    (pc = "idle" /\ err.kind = "none" /\ calls # <<>>) =>
      \A l \in DOMAIN app.root :
        LET route == app.root[l].route IN
        (/\ route # NoRoute
         /\ route.path.isArray
         /\ schemaLayerIndex(route.stack, declared) # 0
         /\ isHTTPMethod(route.stack[schemaLayerIndex(route.stack,
                                                      declared)].method)) =>
          LET k == schemaLayerIndex(route.stack, declared)
              target == route.stack[k]
              es == entriesOn({ route.stack[j].id : j \in DOMAIN route.stack },
                              1)
              n == Len(route.path.strings)
          IN /\ Len(es) = n
             /\ \A i \in DOMAIN es :
                  /\ es[i].layer = target.id
                  /\ es[i].path = route.path.strings[i]
                  /\ es[i].wrote
                  /\ es[i].method = target.method
                  /\ es[i].key = rewritePath(stripBasePath(es[i].path))
                  /\ es[i].key \in DOMAIN doc.paths
                  /\ es[i].method \in DOMAIN doc.paths[es[i].key]
                  /\ sameText(es[i].operation, declared[target.handle],
                              "summary")
                  /\ sameText(es[i].operation, declared[target.handle],
                              "description")
             /\ \A i \in DOMAIN es : \A j \in DOMAIN es :
                  \A name \in sharedNames(es) :
                      paramsNamed(es[i].operation.parameters, name)
                      = paramsNamed(es[j].operation.parameters, name)

\* A fan-out route with a shared parameter was recorded, path by path.
C7_Witness ==
    /\ pc = "idle"
    /\ err.kind = "none"
    /\ Len(calls) = 3
    /\ app.root[1].route # NoRoute
    /\ app.root[1].route.path = Arr(<<PAx, PBx>>)
    /\ calls[2].wrote /\ calls[2].path = PAx
    /\ calls[3].wrote /\ calls[3].path = PBx
    /\ calls[2].key # calls[3].key
    /\ "description" \in DOMAIN calls[3].operation.parameters[1]

\* The keys of a recorded call: its parameter tokens, with required set for
\* a token outside every group.
keysOf(entry) == parseKeys(parse(stripBasePath(entry.path)))

\* C8: in every recorded operation, the parameter of a token nested inside a
\* group has required = false and the parameter of a token outside every
\* group has required = true, whatever the metadata declares and whatever
\* routes the handler was processed for before.
C8_RequiredFollowsGroup ==
    \A i \in DOMAIN calls :
        calls[i].wrote =>
            \A p \in DOMAIN keysOf(calls[i]) :
                calls[i].operation.parameters[p].required
                = keysOf(calls[i])[p].required

\* C9: in every recorded operation, the parameter of a token k is the
\* declaration of k (name k, in = "path") in the metadata the caller
\* registered for the handler, merged over the defaults, or exactly the
\* default when the caller declared none; for every route of the handler.
C9_DeclaredParametersPreserved ==
    \A i \in DOMAIN calls :
        calls[i].wrote =>
            \A p \in DOMAIN keysOf(calls[i]) :
                LET k == keysOf(calls[i])[p] IN
                calls[i].operation.parameters[p]
                = assign(defaultParam(k),
                         findParam(declared[calls[i].handle], k))

\* C10 as stated: over any sequence of requests the middleware calls
\* initializeDoc once only.
C10_OneTraversalEver == requests.inits <= 1

\* C10, amended: the middleware calls initializeDoc on the first request and
\* on each later request until one of these calls returns without raising;
\* once a call has returned, no request triggers another traversal.
C10_LatchAfterReturn ==
    [][ /\ requests.returns >= 1 => requests'.inits = requests.inits
        /\ requests'.returns <= 1
        /\ (requests'.n # requests.n /\ requests.returns = 0)
             => requests'.inits = requests.inits + 1 ]_vars

\* Requests arrived after the traversal of the first request had returned.
C10_Witness ==
    /\ requests.returns = 1
    /\ requests.inits = 1
    /\ requests.n = MaxRequests
    /\ ~isFirstRequest

\* The (path, method) pairs of a paths mapping.
entriesOf(paths) ==
    UNION { { <<p, m>> : m \in DOMAIN paths[p] } : p \in DOMAIN paths }

\* C11: a step that records an operation at document.paths[p][m] stores it
\* there and leaves every other entry unchanged: every other method already
\* under p (entries of the base document included) and every other path
\* key keep their values, and no other entry appears; a step that records
\* nothing leaves the document unchanged.  So the operations two routes
\* record for different methods of one path are both in the document once
\* both have been processed.
C11_MergeByPathAndMethod ==
    [][ stepping =>
          IF thisEntry.wrote
          THEN /\ entriesOf(doc'.paths)
                  = entriesOf(doc.paths) \cup {<<thisEntry.key, thisEntry.method>>}
               /\ doc'.paths[thisEntry.key][thisEntry.method]
                  = thisEntry.operation
               /\ \A e \in entriesOf(doc.paths) :
                    e # <<thisEntry.key, thisEntry.method>>
                    => doc'.paths[e[1]][e[2]] = doc.paths[e[1]][e[2]]
          ELSE doc' = doc ]_vars

\* GET /t was recorded beside the PUT entry the base document brought
\* under the same key.
C11_Witness ==
    /\ pc = "idle"
    /\ err.kind = "none"
    /\ <<"t">> \in DOMAIN doc.paths
    /\ DOMAIN doc.paths[<<"t">>] = {"put", "get"}
    /\ doc.paths[<<"t">>].put = PresetOp
    /\ \E i \in DOMAIN calls :
         calls[i].wrote /\ calls[i].key = <<"t">> /\ calls[i].method = "get"

\* The mount paths along the chain of routers above a layer of a
\* sub-router's stack (r2 is mounted inside r1, r1 in the root), joined.
mountChain(layerId) ==
    IF layerId[1] = "r1" THEN routerMap["r1"]
    ELSE routerMap["r1"] \o routerMap["r2"]

\* C12: a sub-router layer whose router has a mount path registered
\* (whatever string was registered) raises no RouterRegistrationError, and
\* the traversal goes on with one call per layer of the sub-router's stack,
\* in order, each with the prefix followed by the registered mount path; so
\* a route beneath a chain of registered sub-routers is processed with the
\* mount paths of the chain followed by the route path, and a documented
\* one is recorded under that path, base path stripped and markers
\* rewritten.
C12_RegisteredRouterRecursed ==
    [][ stepping =>
          /\ (isRouterLayer(thisCall.layer)
                /\ thisCall.layer.handle \in DOMAIN routerMap) =>
                LET stack == SubStacks[thisCall.layer.handle] IN
                /\ err'.kind # "RouterRegistrationError"
                /\ pc' = pc
                /\ addedCalls =
                     [i \in DOMAIN stack |->
                        Call(thisCall.path \o routerMap[thisCall.layer.handle],
                             stack[i])]
          /\ (isHandlerLayer(thisCall.layer)
                /\ thisCall.layer.id[1] \in RouterIds) =>
                LET route == SubStacks[thisCall.layer.id[1]]
                                      [thisCall.layer.id[2]].route
                    full == mountChain(thisCall.layer.id)
                            \o route.path.strings[1]
                IN /\ thisCall.path = full
                   /\ thisCall.layer.handle \in DOMAIN schemaMap =>
                        /\ thisEntry.wrote
                        /\ thisEntry.key = rewritePath(stripBasePath(full))
                        /\ thisEntry.key \in DOMAIN doc'.paths
                        /\ thisEntry.method \in DOMAIN doc'.paths[thisEntry.key]
      ]_vars

\* A path of literal segments and :name markers only: no wildcard, no group.
onlyLiteralsAndMarkers(path) ==
    \A i \in DOMAIN path : path[i] \notin {"*", "{", "}"}

\* The names of the :name markers of a path, in order.
RECURSIVE markerNames(_, _)
markerNames(path, i) ==
    IF i > Len(path) THEN <<>>
    ELSE IF path[i] = ":"
    THEN LET e == RunEnd(path, i + 1, IdContinue)
         IN <<SubSeq(path, i + 1, e - 1)>> \o markerNames(path, e)
    ELSE markerNames(path, i + 1)

\* The names of the {name} markers of a document key, in order.
RECURSIVE braceNames(_, _)
braceNames(key, i) ==
    IF i > Len(key) THEN <<>>
    ELSE IF key[i] = "{"
    THEN LET e == RunEnd(key, i + 1, {key[k] : k \in DOMAIN key} \ {"}"})
         IN <<SubSeq(key, i + 1, e - 1)>> \o braceNames(key, e)
    ELSE braceNames(key, i + 1)

\* C13: for every recorded operation whose path has only literal segments
\* and :name markers, the document key has one {name} per :name of the
\* path, in the same order and with the same names, no ":" marker is left
\* in the key, and the names of the {name} markers of the key are, in
\* order, the names of the operation's recorded parameters.
C13_MarkersOneToOne ==
    \A i \in DOMAIN calls :
        (calls[i].wrote /\ onlyLiteralsAndMarkers(calls[i].path)) =>
            /\ braceNames(calls[i].key, 1) = markerNames(calls[i].path, 1)
            /\ \A j \in DOMAIN calls[i].key : calls[i].key[j] # ":"
            /\ braceNames(calls[i].key, 1)
               = [p \in DOMAIN calls[i].operation.parameters |->
                    calls[i].operation.parameters[p].name]

\* C14: a layer records an operation only if its handler has registered
\* metadata and the layer carries an HTTP method.  A layer whose handler
\* has no registered metadata, and a layer whose handler has metadata but
\* which carries no method or a method outside the HTTP methods, records
\* nothing (document and registry unchanged), makes getParams raise
\* nothing, and the traversal goes on with the layers of its sub-router or
\* route (a sub-router still has to have its mount path registered).
C14_SkipRule ==
    [][ stepping =>
          /\ thisEntry.wrote =>
                /\ thisCall.layer.handle \in DOMAIN schemaMap
                /\ thisCall.layer.method \in HTTPMethods
          /\ (\/ thisCall.layer.handle \notin DOMAIN schemaMap
              \/ thisCall.layer.method \notin HTTPMethods) =>
                /\ ~thisEntry.wrote
                /\ doc' = doc
                /\ schemaMap' = schemaMap
                /\ err'.kind \in {"none", "RouterRegistrationError"}
                /\ err'.kind = "RouterRegistrationError" =>
                     (isRouterLayer(thisCall.layer)
                      /\ mountMissing(thisCall.layer))
                /\ err'.kind = "none" =>
                     work' = routerCalls(thisCall.path, thisCall.layer)
                             \o routeCalls(thisCall.path, thisCall.layer,
                                           schemaMap)
                             \o Tail(work)
      ]_vars

\* The declared parameters of a registered operation.
declaredParams(schema) ==
    IF "parameters" \in DOMAIN schema
    THEN { schema.parameters[i] : i \in DOMAIN schema.parameters }
    ELSE {}

\* C15: every operation the traversal writes has as parameters exactly the
\* parameter tokens of the route's path, in path order, one entry per
\* token, each named like its token and located in the path; a declared
\* parameter that matches no token (a query parameter, a reference, a
\* path parameter of another name) is neither in the recorded operation
\* nor in the registry entry written back, which is the recorded operation.
C15_ParametersAreThePathTokens ==
    [][ (stepping /\ thisEntry.wrote) =>
          LET names == markerNames(thisCall.path, 1)
              ps == thisEntry.operation.parameters
              kept == { ps[i] : i \in DOMAIN ps }
          IN /\ Len(ps) = Len(names)
             /\ \A i \in DOMAIN ps :
                  ps[i].name = names[i] /\ ps[i]["in"] = "path"
             /\ \A d \in declaredParams(declared[thisCall.layer.handle]) :
                  (\/ ~isParameterObject(d)
                   \/ d["in"] # "path"
                   \/ \A i \in DOMAIN names : d.name # names[i])
                  => d \notin kept
             /\ doc'.paths[thisEntry.key][thisEntry.method].parameters = ps
             /\ schemaMap'[thisCall.layer.handle] = thisEntry.operation
             /\ schemaMap'[thisCall.layer.handle].parameters = ps ]_vars

\* GET /a/:x was recorded for a handler whose metadata declares a query
\* parameter x, or a reference and a path parameter y beside x: the list
\* recorded and written back holds the one path parameter x.
C15_Witness ==
    /\ pc = "idle"
    /\ err.kind = "none"
    /\ "h1" \in DOMAIN declared
    /\ declared["h1"] \in {SchemaQuery, SchemaXY}
    /\ Len(calls) = 2
    /\ calls[2].wrote
    /\ calls[2].path = PAx
    /\ Len(schemaMap["h1"].parameters) = 1
    /\ schemaMap["h1"].parameters[1].name = <<"x">>
    /\ schemaMap["h1"].parameters[1]["in"] = "path"

\* The errors of the generator.
GeneratorErrors == {"RouterRegistrationError", "WildcardPathError"}

\* C16: when initializeDoc raises RouterRegistrationError or
\* WildcardPathError nothing is rolled back: the document and the registry
\* are as the layers visited before the failing one left them, so every
\* operation recorded before is still in the document getDocument returns;
\* and the failed traversal does not clear the latch of the middleware, so
\* the next request runs the traversal again.
C16_NoRollbackOnError ==
    [][ /\ (stepping /\ err'.kind \in GeneratorErrors) =>
             /\ pc' = "idle"
             /\ doc' = doc
             /\ schemaMap' = schemaMap
             /\ isFirstRequest' = isFirstRequest
             /\ \A i \in DOMAIN calls :
                  calls[i].wrote =>
                    /\ calls[i].key \in DOMAIN doc'.paths
                    /\ calls[i].method \in DOMAIN doc'.paths[calls[i].key]
                    /\ schemaMap'[calls[i].handle].parameters
                       \in { calls[j].operation.parameters :
                               j \in { k \in DOMAIN calls : calls[k].wrote } }
        /\ (pc = "idle" /\ err.kind \in GeneratorErrors) =>
             /\ isFirstRequest
             /\ doc' = doc
             /\ requests'.n # requests.n =>
                  /\ pc' = "request"
                  /\ work' = rootCalls
                  /\ requests'.inits = requests.inits + 1 ]_vars

\* The traversal of a second request failed like that of the first, at a
\* sub-router without mount path, after a route had been recorded: the
\* route's operation is in the document and the latch is still set.
C16_Witness ==
    /\ pc = "idle"
    /\ err.kind = "RouterRegistrationError"
    /\ requests.n = 2
    /\ requests.inits = 2
    /\ requests.returns = 0
    /\ isFirstRequest
    /\ \E i \in DOMAIN calls :
         /\ calls[i].wrote
         /\ calls[i].key \in DOMAIN doc.paths
         /\ doc.paths[calls[i].key][calls[i].method] = calls[i].operation

====
